---- MODULE Spec2Model ----
(***************************************************************************)
(* Agent Eight: the fix applier (FixerService), the debounced change       *)
(* pipeline (FileWatcher), the scan engine (ScannerService and its rules)  *)
(* and the engine glue of index.ts, as one state machine.                  *)
(*                                                                         *)
(* Strings are sequences of one-character strings, so that split, join,    *)
(* toLowerCase, endsWith and the regular expressions are computed and not  *)
(* assumed.  A falsy JavaScript string (empty or missing) is <<>>.         *)
(***************************************************************************)
EXTENDS Integers, Sequences, FiniteSets, TLC

VARIABLES
    fs,        \* the file system: absolute path -> [exists, content, r, w]
    calls,     \* the applyFix invocations: call id -> its locals and position
    rules,     \* ScannerService.rules, in insertion order
    lastIndex, \* lastIndex of each pattern object of the PasswordDetectionRule
    lastScan,  \* what the last call of ScannerService.scan was given and did
    refScan,   \* an earlier scan under the same registry, kept for comparison
    nextId,    \* the number of alert identifiers drawn so far
    watcher,   \* FileWatcher.watcher: "null", "running", or being closed
    debounced, \* FileWatcher.debouncedHandlers and the timer of each entry
    handlers,  \* FileWatcher.handlers, in insertion order
    emits,     \* the calls of emitFileEvent so far, in the order of the firings
    engine     \* the engine's handler of file events, the responses of its
               \* socket and the alert list of the client they reach

fixVars == <<fs, calls>>
scanVars == <<rules, lastIndex, lastScan, refScan, nextId, engine>>
watchVars == <<watcher, debounced, handlers, emits>>
vars == <<fs, calls, rules, lastIndex, lastScan, refScan, nextId,
          watcher, debounced, handlers, emits, engine>>

(***************************************************************************)
(* Bounds                                                                  *)
(***************************************************************************)
MaxCalls == 2
MaxAlertIds == 3
MaxRules == 3
MaxEmits == 1
MaxBurst == 2
DebounceTicks == 2
MaxFirings == 2

Calls == 1..MaxCalls

(***************************************************************************)
(* Text literals                                                           *)
(***************************************************************************)
NL == "\n"

\* pwd='a'
TxtPwd == <<"p","w","d","=","'","a","'">>
\* pwd='********'
TxtMasked == <<"p","w","d","=","'","*","*","*","*","*","*","*","*","'">>
\* x
TxtClean == <<"x">>

\* /w : the working directory of the engine process and its watched root
Cwd == <<"/","w">>
\* /w/a.ts
PathA == <<"/","w","/","a",".","t","s">>
\* a.ts
RelA == <<"a",".","t","s">>

FsPaths == {PathA}

Texts == {TxtPwd, TxtClean}

(***************************************************************************)
(* String helpers (JavaScript String and Array methods)                    *)
(***************************************************************************)
Min(S) == CHOOSE x \in S : \A y \in S : x <= y

UpperLetters == <<"A","B","C","D","E","F","G","H","I","J","K","L","M",
                  "N","O","P","Q","R","S","T","U","V","W","X","Y","Z">>
LowerLetters == <<"a","b","c","d","e","f","g","h","i","j","k","l","m",
                  "n","o","p","q","r","s","t","u","v","w","x","y","z">>

UpperSet == {UpperLetters[i] : i \in 1..26}

LowerOf == [ch \in UpperSet |-> LowerLetters[CHOOSE i \in 1..26 : UpperLetters[i] = ch]]

Lower(ch) == IF ch \in UpperSet THEN LowerOf[ch] ELSE ch

\* String.prototype.toLowerCase
ToLowerCase(s) == [i \in 1..Len(s) |-> Lower(s[i])]

\* String.prototype.endsWith
EndsWith(s, suffix) ==
    /\ Len(suffix) <= Len(s)
    /\ SubSeq(s, Len(s) - Len(suffix) + 1, Len(s)) = suffix

\* String.prototype.indexOf, 0-based, -1 when absent
IndexOf(s, sub) ==
    LET First(S) == IF S = {} THEN -1 ELSE Min(S)
    IN First({i \in 0..(Len(s) - Len(sub)) : SubSeq(s, i + 1, i + Len(sub)) = sub})

\* String.prototype.substring(from, to), 0-based, to exclusive
Substring(s, from, to) == SubSeq(s, from + 1, to)

\* content.split('\n')
RECURSIVE Split(_)
Split(s) ==
    LET At(i) == IF i = -1 THEN <<s>>
                 ELSE <<Substring(s, 0, i)>> \o Split(Substring(s, i + 1, Len(s)))
    IN At(IndexOf(s, <<NL>>))

\* lines.join('\n')
RECURSIVE Join(_)
Join(lines) ==
    IF Len(lines) = 0 THEN <<>>
    ELSE IF Len(lines) = 1 THEN lines[1]
    ELSE lines[1] \o <<NL>> \o Join(Tail(lines))

\* String.prototype.replace(pattern, replacement) with a string pattern:
\* the first occurrence only
ReplaceFirst(s, pattern, replacement) ==
    LET At(i) ==
            IF i = -1 THEN s
            ELSE Substring(s, 0, i) \o replacement \o Substring(s, i + Len(pattern), Len(s))
    IN At(IndexOf(s, pattern))

IsSpace(ch) == ch \in {" ", "\t"}
\* the double quote is written "DQ" and the back quote "BQ"
IsQuote(ch) == ch \in {"DQ", "'", "BQ"}

\* the first position >= i (1-based) that is not white space, Len+1 if none
SkipSpaces(line, i) ==
    LET First(S) == IF S = {} THEN Len(line) + 1 ELSE Min(S)
    IN First({j \in i..Len(line) : ~IsSpace(line[j])})

\* the first position >= i (1-based) that holds a quote, Len+1 if none
NextQuote(line, i) ==
    LET First(S) == IF S = {} THEN Len(line) + 1 ELSE Min(S)
    IN First({j \in i..Len(line) : IsQuote(line[j])})

(***************************************************************************)
(* PasswordDetectionRule                                                   *)
(***************************************************************************)
KeyPassword == <<"p","a","s","s","w","o","r","d">>
KeyPwd == <<"p","w","d">>
KeyPasswd == <<"p","a","s","s","w","d">>
KeySecret == <<"s","e","c","r","e","t">>

\* the rule's four patterns by their key: the key (any case), white space,
\* = or :, white space, a quote, one or more non-quotes, a quote
PasswordPatterns == <<KeyPassword, KeyPwd, KeyPasswd, KeySecret>>

PatternIndexes == 1..Len(PasswordPatterns)

\* a quote, one or more non-quotes, a quote, anchored at the 1-based position
\* q: the 1-based position of the closing quote, 0 when it does not match
QuotedEnd(s, q) ==
    IF q > Len(s) \/ ~IsQuote(s[q]) THEN 0
    ELSE LET Closing(d) == IF d <= Len(s) /\ d > q + 1 THEN d ELSE 0
         IN Closing(NextQuote(s, q + 1))

\* the pattern of `key` anchored at the 1-based position i: the 1-based
\* position of the last character matched, 0 when it does not match there
MatchEnd(line, i, key) ==
    LET Assignment(b) ==
            IF b <= Len(line) /\ line[b] \in {"=", ":"}
            THEN QuotedEnd(line, SkipSpaces(line, b + 1))
            ELSE 0
    IN IF /\ i + Len(key) - 1 <= Len(line)
          /\ \A j \in 1..Len(key) : Lower(line[i + j - 1]) = key[j]
       THEN Assignment(SkipSpaces(line, i + Len(key)))
       ELSE 0

NoMatch == [index |-> -1, text |-> <<>>]

\* pattern.exec(line) with pattern.lastIndex = from: the leftmost match at or
\* after the 0-based index `from`, or NoMatch (null)
Exec(line, key, from) ==
    LET MatchAt(i) == [index |-> i, text |-> Substring(line, i, MatchEnd(line, i + 1, key))]
        Leftmost(S) == IF S = {} THEN NoMatch ELSE MatchAt(Min(S))
    IN Leftmost({i \in from..(Len(line) - 1) : MatchEnd(line, i + 1, key) > 0})

RECURSIVE AllMatches(_, _, _)
AllMatches(line, key, from) ==
    LET Loop(m) == IF m = NoMatch THEN <<>>
                   ELSE <<m>> \o AllMatches(line, key, m.index + Len(m.text))
    IN Loop(Exec(line, key, from))

\* a single test of the pattern from the index left by its last use
ExecOnceNoReset(line, key, li) ==
    LET Once(m) == IF m = NoMatch THEN [matches |-> <<>>, lastIndex |-> 0]
                   ELSE [matches |-> <<m>>, lastIndex |-> m.index + Len(m.text)]
    IN Once(Exec(line, key, li))

\* the reset of pattern.lastIndex and the loop of pattern.exec(line) to null;
\* the failed exec that ends the loop leaves lastIndex at 0
ExecLoop(line, key, li) ==
    [matches |-> AllMatches(line, key, 0), lastIndex |-> 0]

MaskedValue == <<"*","*","*","*","*","*","*","*">>

\* matchedText.match(<quoted run>): the 1-based position of the opening
\* quote of the leftmost quoted run, 0 when there is none
ValueMatch(matchedText) ==
    LET First(S) == IF S = {} THEN 0 ELSE Min(S)
    IN First({q \in 1..Len(matchedText) : QuotedEnd(matchedText, q) > 0})

\* a generateFix that masks nothing
PasswordGenerateFixUnmasked(content, lineIndex, matchStart, matchedText) == content

PasswordGenerateFix(content, lineIndex, matchStart, matchedText) ==
    LET NewLine(line, maskedMatch) ==
            Substring(line, 0, matchStart) \o maskedMatch
            \o Substring(line, matchStart + Len(matchedText), Len(line))
        MaskedMatch(q) ==
            ReplaceFirst(matchedText,
                         SubSeq(matchedText, q + 1, QuotedEnd(matchedText, q) - 1),
                         MaskedValue)
        Fix(lines, q) ==
            IF q = 0 THEN Join(lines)
            ELSE Join([lines EXCEPT
                          ![lineIndex + 1] = NewLine(lines[lineIndex + 1], MaskedMatch(q))])
    IN Fix(Split(content), ValueMatch(matchedText))

PasswordRuleId == "password-detection"

PasswordAlert(content, filePath, lineIndex, m) ==
    [id |-> 0,
     filePath |-> filePath,
     severity |-> "critical",
     rule |-> PasswordRuleId,
     message |-> [text |-> "Potential hardcoded password detected",
                  excerpt |-> Substring(m.text, 0, IF Len(m.text) > 30 THEN 30 ELSE Len(m.text)),
                  ellipsis |-> Len(m.text) > 30],
     line |-> lineIndex + 1,
     column |-> m.index + 1,
     currentContent |-> content,
     proposedFix |-> PasswordGenerateFix(content, lineIndex, m.index, m.text),
     matchedText |-> m.text]

\* the two nested loops of PasswordDetectionRule.scan, step t = the pattern
\* t % 4 of the line t \div 4; li is the lastIndex of each pattern object
RECURSIVE PasswordScanFrom(_, _, _, _, _, _)
PasswordScanFrom(content, filePath, lines, t, li, acc) ==
    LET Found(lineIndex, matches) ==
            [j \in 1..Len(matches) |->
                PasswordAlert(content, filePath, lineIndex, matches[j])]
        Step(lineIndex, k, r) ==
            PasswordScanFrom(content, filePath, lines, t + 1,
                             [li EXCEPT ![k] = r.lastIndex],
                             acc \o Found(lineIndex, r.matches))
        At(lineIndex, k) ==
            Step(lineIndex, k,
                 ExecLoop(lines[lineIndex + 1], PasswordPatterns[k], li[k]))
    IN IF t >= Len(lines) * Len(PasswordPatterns)
       THEN [threw |-> FALSE, alerts |-> acc, lastIndex |-> li]
       ELSE At(t \div Len(PasswordPatterns), (t % Len(PasswordPatterns)) + 1)

PasswordScan(content, filePath, li) ==
    PasswordScanFrom(content, filePath, Split(content), 0, li, <<>>)

(***************************************************************************)
(* A rule registered by the operator (IScannerRule): one that throws, and  *)
(* one that reports the first line of every non-empty text                 *)
(***************************************************************************)
CustomAlert(rule, content, filePath) ==
    [id |-> 0,
     filePath |-> filePath,
     severity |-> "low",
     rule |-> rule.id,
     message |-> [text |-> "custom", excerpt |-> <<>>, ellipsis |-> FALSE],
     line |-> 1,
     column |-> 1,
     currentContent |-> content,
     proposedFix |-> content,
     matchedText |-> Split(content)[1]]

CustomScan(rule, content, filePath, li) ==
    IF rule.impl = "broken"
    THEN [threw |-> TRUE, alerts |-> <<>>, lastIndex |-> li]
    ELSE [threw |-> FALSE,
          alerts |-> IF Len(content) = 0 THEN <<>>
                     ELSE <<CustomAlert(rule, content, filePath)>>,
          lastIndex |-> li]

(***************************************************************************)
(* CommentedSecretsRule                                                    *)
(***************************************************************************)
\* the line holds the word w, whatever the case of its letters, from the
\* 1-based position i on
WordAt(line, i, w) ==
    /\ i >= 1
    /\ i + Len(w) - 1 <= Len(line)
    /\ \A j \in 1..Len(w) : Lower(line[i + j - 1]) = w[j]

Max(S) == CHOOSE x \in S : \A y \in S : x >= y

\* the seven patterns of CommentedSecretsRule, in their order: the name
\* reported, and the keys of a commented assignment (password; secret;
\* apikey, api_key, api-key; token; password in a block comment)
CommentedPatterns ==
    << [name |-> "commented password", keys |-> {KeyPassword}],
       [name |-> "commented secret", keys |-> {KeySecret}],
       [name |-> "commented API key",
        keys |-> {<<"a","p","i","k","e","y">>, <<"a","p","i","_","k","e","y">>, <<"a","p","i","-","k","e","y">>}],
       [name |-> "commented token", keys |-> {<<"t","o","k","e","n">>}],
       [name |-> "commented password (block)", keys |-> {KeyPassword}],
       [name |-> "old credential reference", keys |-> {}],
       [name |-> "TODO with password reference", keys |-> {}] >>

\* the k-th pattern of CommentedSecretsRule anchored at the 1-based position
\* i: the 1-based position of the last character matched, 0 for no match
CommentedMatchEnd(line, i, k) ==
    LET OldWords == {<<"o","l","d">>, <<"p","r","e","v","i","o","u","s">>, <<"t","e","m","p">>, <<"t","e","s","t">>}
        CredentialWords == {KeyPassword, KeySecret, <<"k","e","y">>, <<"t","o","k","e","n">>}
        TodoWords == {<<"t","o","d","o">>, <<"f","i","x","m","e">>, <<"h","a","c","k">>}
        AssignEnd(j, K) == Max({MatchEnd(line, j, key) : key \in K} \cup {0})
        \* the greedy run after the marker: the last assignment of the line
        LastAssign(J, K) == IF J = {} THEN 0 ELSE AssignEnd(Max(J), K)
        LineComment(K) ==
            LastAssign({j \in (i + 2)..Len(line) : AssignEnd(j, K) > 0}, K)
        \* the lazy runs of the block pattern: the first assignment, then the
        \* first end of the comment
        BlockClose(C) == IF C = {} THEN 0 ELSE Min(C) + 1
        BlockAfter(e) ==
            BlockClose({c \in (e + 1)..Len(line) : WordAt(line, c, <<"*", "/">>)})
        BlockFirst(J) ==
            IF J = {} THEN 0 ELSE BlockAfter(AssignEnd(Min(J), CommentedPatterns[5].keys))
        BlockComment ==
            BlockFirst({j \in (i + 2)..Len(line) : AssignEnd(j, CommentedPatterns[5].keys) > 0})
        SecondWord(c) ==
            Max({IF WordAt(line, c, w) THEN c + Len(w) - 1 ELSE 0 : w \in CredentialWords})
        FirstWord(b) ==
            Max({IF WordAt(line, b, w) THEN SecondWord(SkipSpaces(line, b + Len(w))) ELSE 0 :
                    w \in OldWords})
        LastPassword(J) == IF J = {} THEN 0 ELSE Max(J) + Len(KeyPassword) - 1
        Todo(b) ==
            Max({IF WordAt(line, b, w)
                 THEN LastPassword({j \in (b + Len(w))..Len(line) :
                                       WordAt(line, j, KeyPassword)})
                 ELSE 0 : w \in TodoWords})
    IN IF k = 5
       THEN (IF WordAt(line, i, <<"/", "*">>) THEN BlockComment ELSE 0)
       ELSE IF ~WordAt(line, i, <<"/", "/">>) THEN 0
       ELSE IF k <= 4 THEN LineComment(CommentedPatterns[k].keys)
       ELSE IF k = 6 THEN FirstWord(SkipSpaces(line, i + 2))
       ELSE Todo(SkipSpaces(line, i + 2))

\* pattern.lastIndex = 0 and the loop of pattern.exec(line) to null, for the
\* k-th pattern, from the 0-based index `from` on
RECURSIVE CommentedMatches(_, _, _)
CommentedMatches(line, k, from) ==
    LET MatchAt(i) ==
            [index |-> i, text |-> Substring(line, i, CommentedMatchEnd(line, i + 1, k))]
        Loop(m) == <<m>> \o CommentedMatches(line, k, m.index + Len(m.text))
        Leftmost(S) == IF S = {} THEN <<>> ELSE Loop(MatchAt(Min(S)))
    IN Leftmost({i \in from..(Len(line) - 1) : CommentedMatchEnd(line, i + 1, k) > 0})

CommentedRuleId == "commented-secrets-detection"

\* // REMOVED: Commented secret - clean git history with BFG or git-filter-repo
CommentedReplacement ==
 << "/", "/", " ", "R", "E", "M", "O", "V", "E", "D", ":", " ", "C", "o", "m",
    "m", "e", "n", "t", "e", "d", " ", "s", "e", "c", "r", "e", "t", " ", "-",
    " ", "c", "l", "e", "a", "n", " ", "g", "i", "t", " ", "h", "i", "s", "t",
    "o", "r", "y", " ", "w", "i", "t", "h", " ", "B", "F", "G", " ", "o", "r",
    " ", "g", "i", "t", "-", "f", "i", "l", "t", "e", "r", "-", "r", "e", "p",
    "o" >>

\* generateFix: the whole line gives way to the fixed comment
CommentedGenerateFix(content, lineIndex) ==
    LET Fix(lines) == Join([lines EXCEPT ![lineIndex + 1] = CommentedReplacement])
    IN Fix(Split(content))

CommentedAlert(content, filePath, lineIndex, k, m) ==
    [id |-> 0,
     filePath |-> filePath,
     severity |-> "medium",
     rule |-> CommentedRuleId,
     message |-> [text |-> CommentedPatterns[k].name, excerpt |-> <<>>, ellipsis |-> FALSE],
     line |-> lineIndex + 1,
     column |-> m.index + 1,
     currentContent |-> content,
     proposedFix |-> CommentedGenerateFix(content, lineIndex),
     matchedText |-> m.text]

\* the two nested loops of CommentedSecretsRule.scan, step t = the pattern
\* t % 7 of the line t \div 7
RECURSIVE CommentedScanFrom(_, _, _, _, _)
CommentedScanFrom(content, filePath, lines, t, acc) ==
    LET n == Len(CommentedPatterns)
        Found(lineIndex, k, matches) ==
            [j \in 1..Len(matches) |->
                CommentedAlert(content, filePath, lineIndex, k, matches[j])]
        At(lineIndex, k) ==
            CommentedScanFrom(content, filePath, lines, t + 1,
                              acc \o Found(lineIndex, k,
                                           CommentedMatches(lines[lineIndex + 1], k, 0)))
    IN IF t >= Len(lines) * n THEN acc ELSE At(t \div n, (t % n) + 1)

CommentedScan(content, filePath, li) ==
    [threw |-> FALSE,
     alerts |-> CommentedScanFrom(content, filePath, Split(content), 0, <<>>),
     lastIndex |-> li]

(***************************************************************************)
(* PrivateKeyDetectionRule                                                 *)
(***************************************************************************)
\* the seven patterns, each the literal text of a BEGIN marker
PrivateKeyPatterns ==
    LET Dashes == <<"-","-","-","-","-">>
    IN << [name |-> "RSA Private Key",
        text |-> Dashes \o <<"B","E","G","I","N"," ","R","S","A"," ","P","R","I","V","A","T","E"," ","K","E","Y">> \o Dashes],
       [name |-> "DSA Private Key",
        text |-> Dashes \o <<"B","E","G","I","N"," ","D","S","A"," ","P","R","I","V","A","T","E"," ","K","E","Y">> \o Dashes],
       [name |-> "EC Private Key",
        text |-> Dashes \o <<"B","E","G","I","N"," ","E","C"," ","P","R","I","V","A","T","E"," ","K","E","Y">> \o Dashes],
       [name |-> "OpenSSH Private Key",
        text |-> Dashes \o <<"B","E","G","I","N"," ","O","P","E","N","S","S","H"," ","P","R","I","V","A","T","E"," ","K","E","Y">> \o Dashes],
       [name |-> "PGP Private Key",
        text |-> Dashes \o <<"B","E","G","I","N"," ","P","G","P"," ","P","R","I","V","A","T","E"," ","K","E","Y"," ","B","L","O","C","K">> \o Dashes],
       [name |-> "Private Key (Generic)",
        text |-> Dashes \o <<"B","E","G","I","N"," ","P","R","I","V","A","T","E"," ","K","E","Y">> \o Dashes],
       [name |-> "Encrypted Private Key",
        text |-> Dashes \o <<"B","E","G","I","N"," ","E","N","C","R","Y","P","T","E","D"," ","P","R","I","V","A","T","E"," ","K","E","Y">> \o Dashes] >>

\* generateFix: the line of the marker and the lines after it, up to and with
\* the first one that holds -----END, give way to comments; without such a
\* line the loop runs to the end of the file
PrivateKeyGenerateFix(content, lineIndex) ==
    LET End == <<"-","-","-","-","-","E","N","D">>
        Removed == <<"/","/"," ","R","E","M","O","V","E","D",":"," ","P","r","i","v","a",
                   "t","e"," ","k","e","y"," ","-"," ","l","o","a","d"," ","f","r","o","m"," ","s","e","c","u","r","e"," ","l","o","c","a","t","i","o","n"," ","i","n","s","t","e","a","d">>
        KeyContent == <<"/","/"," ","R","E","M","O","V","E","D",":"," ","K","e","y"," ","c","o","n","t","e","n","t">>
        EndOfBlock == <<"/","/"," ","R","E","M","O","V","E","D",":"," ","E","n","d"," ","o","f"," ","p","r","i","v","a","t","e"," ","k","e","y"," ","b","l","o","c","k">>
        \* the 1-based number of the line the while loop stops at
        Stop(lines, ends) == IF ends = {} THEN Len(lines) + 1 ELSE Min(ends)
        Fix(lines, stop) ==
            Join([n \in 1..Len(lines) |->
                     IF n = lineIndex + 1 THEN Removed
                     ELSE IF n > lineIndex + 1 /\ n < stop THEN KeyContent
                     ELSE IF n > lineIndex + 1 /\ n = stop THEN EndOfBlock
                     ELSE lines[n]])
        Of(lines) ==
            Fix(lines, Stop(lines, {n \in (lineIndex + 2)..Len(lines) :
                                       IndexOf(lines[n], End) # -1}))
    IN Of(Split(content))

\* PrivateKeyDetectionRule.scan: its own skip of test keys, then the loops
\* over lines, patterns and the matches of a pattern, left to right without
\* overlap
PrivateKeyScan(content, filePath, li) ==
    LET test == <<"t","e","s","t">>
        Skip(lowerPath) ==
            /\ IndexOf(lowerPath, test) # -1
            /\ \/ EndsWith(lowerPath, <<".","p","e","m">>)
               \/ EndsWith(lowerPath, <<".","k","e","y">>)
        RECURSIVE Matches(_, _, _)
        Matches(line, text, from) ==
            LET Next(i) == IF i = -1 THEN <<>>
                           ELSE <<from + i>> \o Matches(line, text, from + i + Len(text))
            IN Next(IndexOf(Substring(line, from, Len(line)), text))
        Alert(lineIndex, k, index) ==
            [id |-> 0,
             filePath |-> filePath,
             severity |-> "critical",
             rule |-> "private-key-detection",
             message |-> [text |-> PrivateKeyPatterns[k].name, excerpt |-> <<>>,
                          ellipsis |-> FALSE],
             line |-> lineIndex + 1,
             column |-> index + 1,
             currentContent |-> content,
             proposedFix |-> PrivateKeyGenerateFix(content, lineIndex),
             matchedText |-> PrivateKeyPatterns[k].text]
        Found(lineIndex, k, at) ==
            [j \in 1..Len(at) |-> Alert(lineIndex, k, at[j])]
        n == Len(PrivateKeyPatterns)
        RECURSIVE From(_, _, _)
        From(lines, t, acc) ==
            IF t >= Len(lines) * n THEN acc
            ELSE From(lines, t + 1,
                      acc \o Found(t \div n, (t % n) + 1,
                                   Matches(lines[(t \div n) + 1],
                                           PrivateKeyPatterns[(t % n) + 1].text, 0)))
    IN [threw |-> FALSE,
        alerts |-> IF Skip(ToLowerCase(filePath)) THEN <<>>
                   ELSE From(Split(content), 0, <<>>),
        lastIndex |-> li]

(***************************************************************************)
(* The eight other rules of the default set.  Their patterns are not        *)
(* spelled out: each rule is given the literals (lower-cased) one of which *)
(* every match of its patterns contains, and is taken to report the line   *)
(* whenever the line holds one of them or a run of LongRun characters      *)
(* without white space or quote; on a line without them the rule reports   *)
(* nothing, as in the source.                                              *)
(***************************************************************************)
LiteralRuleTable ==
    "api-key-detection" :> [severity |-> "critical", needs |-> {
        <<"a","k","i","a">>, <<"s","k","-">>,
        <<"s","k","_","l","i","v","e","_">>,
        <<"p","k","_","l","i","v","e","_">>, <<"g","h","p","_">>,
        <<"g","h","o","_">>, <<"g","h","u","_">>, <<"a","i","z","a">>,
        <<"x","o","x">>,
        <<"h","o","o","k","s",".","s","l","a","c","k",".","c","o","m">>,
        <<"s","g",".">>, <<"-","u","s">>, <<"n","p","m","_">>}] @@
    "database-connection-detection" :> [severity |-> "critical", needs |-> {
        <<":","/","/">>}] @@
    "eval-detection" :> [severity |-> "critical", needs |-> {
        <<"e","v","a","l">>, <<"f","u","n","c","t","i","o","n">>,
        <<"s","e","t","t","i","m","e","o","u","t">>,
        <<"s","e","t","i","n","t","e","r","v","a","l">>}] @@
    "command-injection-detection" :> [severity |-> "critical", needs |-> {
        <<"e","x","e","c">>, <<"s","p","a","w","n">>,
        <<"s","h","e","l","l">>}] @@
    "jwt-token-detection" :> [severity |-> "high", needs |-> {
        <<"e","y","j">>}] @@
    "cors-wildcard-detection" :> [severity |-> "high", needs |-> {
        <<"a","c","c","e","s","s","-","c","o","n","t","r","o","l","-","a","l","l","o","w","-","o","r","i","g","i","n">>,
        <<"c","o","r","s">>}] @@
    "weak-crypto-detection" :> [severity |-> "high", needs |-> {
        <<"m","d","5">>, <<"s","h","a","1">>,
        <<"c","r","e","a","t","e","h","a","s","h">>,
        <<"c","r","e","a","t","e","c","i","p","h","e","r">>,
        <<"-","e","c","b">>}] @@
    "console-secrets-detection" :> [severity |-> "medium", needs |-> {
        <<"c","o","n","s","o","l","e",".">>}]

\* the shortest run of key characters a pattern without a literal asks for
LongRun == 24

LiteralHit(ruleId, line) ==
    LET Holds(lowerLine) ==
            \E w \in LiteralRuleTable[ruleId].needs : IndexOf(lowerLine, w) # -1
    IN \/ Holds(ToLowerCase(line))
       \/ \E i \in 1..(Len(line) - LongRun + 1) :
              \A j \in i..(i + LongRun - 1) : ~IsSpace(line[j]) /\ ~IsQuote(line[j])

LiteralScan(rule, content, filePath, li) ==
    LET Alert(n) ==
            [id |-> 0,
             filePath |-> filePath,
             severity |-> LiteralRuleTable[rule.id].severity,
             rule |-> rule.id,
             message |-> [text |-> "possible match", excerpt |-> <<>>, ellipsis |-> FALSE],
             line |-> n,
             column |-> 1,
             currentContent |-> content,
             proposedFix |-> content,
             matchedText |-> <<>>]
        Nth(hits, k) == CHOOSE n \in hits : Cardinality({m \in hits : m < n}) = k - 1
        Alerts(hits) == [k \in 1..Cardinality(hits) |-> Alert(Nth(hits, k))]
        Lines(lines) == Alerts({n \in 1..Len(lines) : LiteralHit(rule.id, lines[n])})
    IN [threw |-> FALSE, alerts |-> Lines(Split(content)), lastIndex |-> li]

\* rule.scan(content, filePath), dispatched on the rule's class
RuleScan(rule, content, filePath, li) ==
    IF rule.impl = "password" THEN PasswordScan(content, filePath, li)
    ELSE IF rule.impl = "commented" THEN CommentedScan(content, filePath, li)
    ELSE IF rule.impl = "privatekey" THEN PrivateKeyScan(content, filePath, li)
    ELSE IF rule.impl = "literal" THEN LiteralScan(rule, content, filePath, li)
    ELSE CustomScan(rule, content, filePath, li)

(***************************************************************************)
(* ScannerService                                                          *)
(***************************************************************************)
SkipExtensions == {
    <<".","p","n","g">>, <<".","j","p","g">>, <<".","j","p","e","g">>,
    <<".","g","i","f">>, <<".","i","c","o">>, <<".","s","v","g">>,
    <<".","w","o","f","f">>, <<".","w","o","f","f","2">>, <<".","t","t","f">>,
    <<".","e","o","t">>,
    <<".","m","p","3">>, <<".","m","p","4">>, <<".","w","a","v">>, <<".","a","v","i">>,
    <<".","z","i","p">>, <<".","t","a","r">>, <<".","g","z">>, <<".","r","a","r">>,
    <<".","p","d","f">>, <<".","d","o","c">>, <<".","d","o","c","x">>,
    <<".","l","o","c","k">>, <<".","m","a","p">>}

ExampleEnvSuffixes == {
    <<".","e","n","v",".","e","x","a","m","p","l","e">>,
    <<".","e","n","v",".","s","a","m","p","l","e">>,
    <<".","e","n","v",".","t","e","m","p","l","a","t","e">>}

\* the skip test without the lower-casing of the path
ShouldSkipFileCaseSensitive(filePath) ==
    \/ \E ext \in SkipExtensions : EndsWith(filePath, ext)
    \/ \E suffix \in ExampleEnvSuffixes : EndsWith(filePath, suffix)

ShouldSkipFile(filePath) ==
    LET Listed(lowerPath) ==
            \/ \E ext \in SkipExtensions : EndsWith(lowerPath, ext)
            \/ \E suffix \in ExampleEnvSuffixes : EndsWith(lowerPath, suffix)
    IN Listed(ToLowerCase(filePath))

PasswordRule == [id |-> PasswordRuleId, impl |-> "password"]

\* the rule the constructor of the first scanner registers
DefaultRules == <<PasswordRule>>

CommentedRule == [id |-> CommentedRuleId, impl |-> "commented"]

LiteralRule(ruleId) == [id |-> ruleId, impl |-> "literal"]

\* the eleven rules the constructor of the full scanner registers, in its
\* order
FullRules ==
    << PasswordRule, LiteralRule("api-key-detection"),
       [id |-> "private-key-detection", impl |-> "privatekey"],
       LiteralRule("database-connection-detection"), LiteralRule("eval-detection"),
       LiteralRule("command-injection-detection"), LiteralRule("jwt-token-detection"),
       LiteralRule("cors-wildcard-detection"), LiteralRule("weak-crypto-detection"),
       LiteralRule("console-secrets-detection"), CommentedRule >>

RuleIds(registry) == {registry[i].id : i \in 1..Len(registry)}

\* a registry in which a rule registered again moves to the end
RegistrySetAtEnd(registry, rule) ==
    Append(SelectSeq(registry, LAMBDA r : r.id # rule.id), rule)

\* Map.set: a known id keeps its place and takes the new rule, a new id is
\* appended
RegistrySet(registry, rule) ==
    IF rule.id \in RuleIds(registry)
    THEN [i \in 1..Len(registry) |->
             IF registry[i].id = rule.id THEN rule ELSE registry[i]]
    ELSE Append(registry, rule)

\* Map.delete
RegistryDelete(registry, ruleId) ==
    SelectSeq(registry, LAMBDA rule : rule.id # ruleId)

\* a scan in which a throwing rule ends the loop and the exception leaves scan
OnRuleErrorRethrow(acc) == [acc EXCEPT !.aborted = TRUE]

\* the catch around rule.scan: the error is logged, the loop goes on
OnRuleError(acc) == acc

\* for (const rule of this.rules.values()) { try ... catch ... }
RECURSIVE RuleLoop(_, _, _, _, _)
RuleLoop(registry, i, content, filePath, acc) ==
    LET Called(out) == [acc EXCEPT !.invoked = Append(@, registry[i].id),
                                   !.lastIndex = out.lastIndex]
        After(out) == IF out.threw THEN OnRuleError(Called(out))
                      ELSE [Called(out) EXCEPT !.alerts = @ \o out.alerts]
        Try(out) == RuleLoop(registry, i + 1, content, filePath, After(out))
    IN IF i > Len(registry) \/ acc.aborted THEN acc
       ELSE Try(RuleScan(registry[i], content, filePath, acc.lastIndex))

\* ScannerService.scan; `aborted` says that scan threw instead of returning
ScannerScan(registry, content, filePath, li) ==
    LET From(start) == IF ShouldSkipFile(filePath) THEN start
                       ELSE RuleLoop(registry, 1, content, filePath, start)
    IN From([aborted |-> FALSE, alerts |-> <<>>, invoked |-> <<>>, lastIndex |-> li])

\* uuidv4(): the alerts of one scan take the next unused identifiers
WithIds(alerts, firstId) ==
    [j \in 1..Len(alerts) |-> [alerts[j] EXCEPT !.id = firstId + j - 1]]

\* an alert without its identifier
Unidentified(alerts) == [j \in 1..Len(alerts) |-> [alerts[j] EXCEPT !.id = 0]]

(***************************************************************************)
(* FixerService                                                            *)
(***************************************************************************)
ErrInvalidPath == "Invalid file path provided"
ErrInvalidReplacement == "Invalid replacement content provided"
ErrNotAccessible == "File does not exist or is not accessible"
\* a stale baseline reported with the words of the accessibility check
ErrStaleAsNotAccessible == "File does not exist or is not accessible"
ErrStale == "File has been modified since the scan. Please review the new content."
ErrENOENT == "ENOENT: no such file or directory"
ErrEACCES == "EACCES: permission denied"
NoError == "none"

\* path.resolve: an absolute path is kept, a relative one is joined to cwd
Resolve(p) == IF Len(p) > 0 /\ p[1] = "/" THEN p ELSE Cwd \o <<"/">> \o p

NoFile == [exists |-> FALSE, content |-> <<>>, r |-> FALSE, w |-> FALSE]

FileAt(p) == IF p \in DOMAIN fs THEN fs[p] ELSE NoFile

NoPayload == [alertId |-> 0, filePath |-> <<>>, originalContent |-> <<>>,
              replacementContent |-> <<>>]

NoResponse == [success |-> FALSE, filePath |-> <<>>, alertId |-> 0, error |-> NoError]

IdleCall == [pc |-> "idle", payload |-> NoPayload, normalizedPath |-> <<>>,
             currentContent |-> <<>>, result |-> NoResponse]

Failure(path, id, err) ==
    [success |-> FALSE, filePath |-> path, alertId |-> id, error |-> err]

Success(path, id) ==
    [success |-> TRUE, filePath |-> path, alertId |-> id, error |-> NoError]

\* fs.access(path, R_OK | W_OK)
AccessRW(p) == FileAt(p).exists /\ FileAt(p).r /\ FileAt(p).w

\* validateFix: path.resolve, fs.access(path, R_OK), readFile and the
\* comparison, on the file as it is; a path that names no file (also the
\* directory an empty path resolves to) is not valid
ValidateFix(payload) ==
    LET Checked(f) ==
            IF ~(f.exists /\ f.r)
            THEN [valid |-> FALSE, reason |-> "File is not accessible"]
            ELSE IF f.content # payload.originalContent
            THEN [valid |-> FALSE, reason |-> "File content has changed since scan"]
            ELSE [valid |-> TRUE, reason |-> ""]
    IN Checked(FileAt(Resolve(payload.filePath)))

\* a guard that lets every content through
IsStaleNever(currentContent, originalContent) == FALSE

\* a guard that rejects every content
IsStaleAlways(currentContent, originalContent) == TRUE

\* the comparison that guards the write
IsStale(currentContent, originalContent) == currentContent # originalContent

\* applyFix up to its first await: the two validations and path.resolve
ApplyFixBegin(c, payload) ==
    /\ calls[c].pc = "idle"
    /\ calls' = [calls EXCEPT ![c] =
         IF Len(payload.filePath) = 0
         THEN [@ EXCEPT !.pc = "done", !.payload = payload,
                        !.result = Failure(<<"u","n","k","n","o","w","n">>,
                                           payload.alertId, ErrInvalidPath)]
         ELSE IF Len(payload.replacementContent) = 0
         THEN [@ EXCEPT !.pc = "done", !.payload = payload,
                        !.result = Failure(payload.filePath, payload.alertId,
                                           ErrInvalidReplacement)]
         ELSE [@ EXCEPT !.pc = "access", !.payload = payload,
                        !.normalizedPath = Resolve(payload.filePath)]]
    /\ UNCHANGED <<fs, scanVars, watchVars>>

\* await fs.access(...) and the catch around it
ApplyFixAccess(c) ==
    /\ calls[c].pc = "access"
    /\ calls' = [calls EXCEPT ![c] =
         IF AccessRW(calls[c].normalizedPath)
         THEN [@ EXCEPT !.pc = "read"]
         ELSE [@ EXCEPT !.pc = "done",
                        !.result = Failure(calls[c].normalizedPath,
                                           calls[c].payload.alertId, ErrNotAccessible)]]
    /\ UNCHANGED <<fs, scanVars, watchVars>>

\* await fs.readFile(...) and the comparison with originalContent; a failed
\* read throws into the outer catch, which answers with the error's message
ApplyFixRead(c) ==
    /\ calls[c].pc = "read"
    /\ LET f == FileAt(calls[c].normalizedPath)
           p == calls[c].payload
       IN calls' = [calls EXCEPT ![c] =
            IF ~f.exists
            THEN [@ EXCEPT !.pc = "done",
                           !.result = Failure(p.filePath, p.alertId, ErrENOENT)]
            ELSE IF ~f.r
            THEN [@ EXCEPT !.pc = "done",
                           !.result = Failure(p.filePath, p.alertId, ErrEACCES)]
            ELSE IF IsStale(f.content, p.originalContent)
            THEN [@ EXCEPT !.pc = "done", !.currentContent = f.content,
                           !.result = Failure(calls[c].normalizedPath, p.alertId, ErrStale)]
            ELSE [@ EXCEPT !.pc = "write", !.currentContent = f.content]]
    /\ UNCHANGED <<fs, scanVars, watchVars>>

\* await fs.writeFile(...): replaces the whole file, creating it when it is
\* missing; a file that is no longer writable throws into the outer catch
ApplyFixWrite(c) ==
    /\ calls[c].pc = "write"
    /\ UNCHANGED <<scanVars, watchVars>>
    /\ LET np == calls[c].normalizedPath
           f == FileAt(np)
           p == calls[c].payload
       IN IF f.exists /\ ~f.w
          THEN /\ calls' = [calls EXCEPT ![c] =
                     [@ EXCEPT !.pc = "done",
                               !.result = Failure(p.filePath, p.alertId, ErrEACCES)]]
               /\ UNCHANGED fs
          ELSE /\ fs' = [fs EXCEPT ![np] =
                     IF f.exists
                     THEN [@ EXCEPT !.content = p.replacementContent]
                     ELSE [exists |-> TRUE, content |-> p.replacementContent,
                           r |-> TRUE, w |-> TRUE]]
               /\ calls' = [calls EXCEPT ![c] =
                     [@ EXCEPT !.pc = "done", !.result = Success(np, p.alertId)]]

(***************************************************************************)
(* Other writers of the watched tree: an editor, a chmod, a deletion       *)
(***************************************************************************)
ExternalEdit(p, t) ==
    /\ FileAt(p).content # t \/ ~FileAt(p).exists
    /\ fs' = [fs EXCEPT ![p] =
         IF @.exists THEN [@ EXCEPT !.content = t]
         ELSE [exists |-> TRUE, content |-> t, r |-> TRUE, w |-> TRUE]]
    /\ UNCHANGED <<calls, scanVars, watchVars>>

ExternalDelete(p) ==
    /\ fs[p].exists
    /\ fs' = [fs EXCEPT ![p] = NoFile]
    /\ UNCHANGED <<calls, scanVars, watchVars>>

ExternalChmod(p, r, w) ==
    /\ fs[p].exists
    /\ <<fs[p].r, fs[p].w>> # <<r, w>>
    /\ fs' = [fs EXCEPT ![p] = [@ EXCEPT !.r = r, !.w = w]]
    /\ UNCHANGED <<calls, scanVars, watchVars>>

(***************************************************************************)
(* FileWatcher                                                             *)
(***************************************************************************)
WatchPaths == {PathA}

EventTypes == {"add", "change", "unlink"}

\* an entry of debouncedHandlers: `present` says that the map holds it,
\* `armed` that its timer is pending, `type` the arguments of the last call,
\* `remaining` the ticks left, `burst` the calls since the timer was armed
NoDebounce == [present |-> FALSE, armed |-> FALSE, type |-> "add",
               remaining |-> 0, burst |-> 0]

\* the calls keep the first arguments and leave a pending timer running
DebounceCallNoRestart(entry, type) ==
    IF entry.armed THEN [entry EXCEPT !.burst = @ + 1]
    ELSE [present |-> TRUE, armed |-> TRUE, type |-> type,
          remaining |-> DebounceTicks, burst |-> 1]

\* a debounce with a maximum wait of one interval: a call replaces the
\* pending arguments and the timer armed by the first call keeps running
DebounceCallMaxWait(entry, type) ==
    [present |-> TRUE, armed |-> TRUE, type |-> type,
     remaining |-> IF entry.armed THEN entry.remaining ELSE DebounceTicks,
     burst |-> entry.burst + 1]

\* debouncedHandler(type, absolutePath) of a trailing-edge debounce: the
\* call replaces the pending arguments and restarts the interval
DebounceCall(entry, type) ==
    [present |-> TRUE, armed |-> TRUE, type |-> type,
     remaining |-> DebounceTicks, burst |-> entry.burst + 1]

\* one debounced function shared by all the paths: a call restarts the
\* interval of every pending path
HandleFileEventShared(type, filePath) ==
    /\ watcher = "running"
    /\ LET absolutePath == Resolve(filePath)
       IN /\ debounced[absolutePath].burst < MaxBurst
          /\ debounced' = [p \in DOMAIN debounced |->
                              IF p = absolutePath THEN DebounceCall(debounced[p], type)
                              ELSE IF debounced[p].armed
                              THEN [debounced[p] EXCEPT !.remaining = DebounceTicks]
                              ELSE debounced[p]]
    /\ UNCHANGED <<watcher, handlers, emits>>

\* handleFileEvent: a raw notification of the underlying watcher, which
\* reports nothing once it has been told to close
HandleFileEvent(type, filePath) ==
    /\ watcher = "running"
    /\ LET absolutePath == Resolve(filePath)
       IN /\ debounced[absolutePath].burst < MaxBurst
          /\ debounced' = [debounced EXCEPT
                              ![absolutePath] = DebounceCall(@, type)]
    /\ UNCHANGED <<watcher, handlers, emits>>

\* one tick of the clock: every pending timer comes one tick closer; a timer
\* that is due fires before the clock moves on
Tick ==
    /\ \E p \in DOMAIN debounced : debounced[p].armed
    /\ \A p \in DOMAIN debounced : debounced[p].armed => debounced[p].remaining > 0
    /\ debounced' = [p \in DOMAIN debounced |->
                        IF debounced[p].armed
                        THEN [debounced[p] EXCEPT !.remaining = @ - 1]
                        ELSE debounced[p]]
    /\ UNCHANGED <<watcher, handlers, emits, fixVars, scanVars>>

\* a listener that throws ends the loop and the exception leaves the emit
HandlerErrorRethrow(acc) == [acc EXCEPT !.escaped = TRUE]

\* the catch around handler(event): the error is logged, the loop goes on
HandlerError(acc) == acc

\* the listeners: "h1" throws on every event, "h2" returns
HandlerIds == {"h1", "h2"}

HandlerThrows(h) == h = "h1"

\* for (const handler of this.handlers) { try ... catch ... }
RECURSIVE NotifyHandlers(_, _, _)
NotifyHandlers(hs, i, acc) ==
    IF i > Len(hs) \/ acc.escaped THEN acc
    ELSE LET called == [acc EXCEPT !.invoked = Append(@, hs[i])]
         IN NotifyHandlers(hs, i + 1,
                           IF HandlerThrows(hs[i]) THEN HandlerError(called) ELSE called)

NoDelivery == [invoked |-> <<>>, escaped |-> FALSE]

\* the part of emitFileEvent after the read: the event goes to the listeners
Delivered(emit, content) ==
    LET out == NotifyHandlers(handlers, 1, NoDelivery)
    IN [emit EXCEPT !.stage = "delivered", !.content = content,
                    !.invoked = out.invoked, !.escaped = out.escaped]

\* an emit that takes every firing for a change
NewEmitAsChange(type, filePath, burst) ==
    [type |-> "change", filePath |-> filePath, burst |-> burst, stage |-> "reading",
     content |-> <<>>, invoked |-> <<>>, escaped |-> FALSE]

NewEmit(type, filePath, burst) ==
    [type |-> type, filePath |-> filePath, burst |-> burst, stage |-> "reading",
     content |-> <<>>, invoked |-> <<>>, escaped |-> FALSE]

\* the timer of p expires: the debounced function runs emitFileEvent with the
\* last arguments; an unlink event is delivered at once, an add or change
\* event starts the read of the file
TimerFires(p) ==
    /\ debounced[p].armed
    /\ debounced[p].remaining = 0
    /\ debounced' = [debounced EXCEPT ![p] = [@ EXCEPT !.armed = FALSE, !.burst = 0]]
    /\ LET emit == NewEmit(debounced[p].type, p, debounced[p].burst)
       IN emits' = Append(emits,
                          IF debounced[p].type = "unlink"
                          THEN Delivered(emit, <<>>)
                          ELSE emit)
    /\ UNCHANGED <<watcher, handlers>>

\* fs.readFile: the error code of a failed read, "none" for a read that works
ReadError(f) ==
    IF ~f.exists THEN "ENOENT"
    ELSE IF ~f.r THEN "EACCES"
    ELSE "none"

\* the read of the i-th emit completes and emitFileEvent goes on: a vanished
\* or unreadable file drops the event, a read content is delivered; a read
\* of a file that is there may still fail with another error (EIO, EMFILE),
\* which emitFileEvent throws again: the promise of the debounced function
\* rejects and nothing handles the rejection
ReadCompletes(i) ==
    /\ emits[i].stage = "reading"
    /\ LET f == FileAt(emits[i].filePath)
       IN \E err \in {ReadError(f)} \cup (IF ReadError(f) = "none" THEN {"EIO"} ELSE {}) :
              emits' = [emits EXCEPT ![i] =
                  IF err \in {"ENOENT", "EACCES"} THEN [@ EXCEPT !.stage = "dropped"]
                  ELSE IF err = "none" THEN Delivered(@, f.content)
                  ELSE [@ EXCEPT !.stage = "rejected", !.escaped = TRUE]]
    /\ UNCHANGED <<watcher, debounced, handlers>>

\* onFileChange(handler)
OnFileChange(h) ==
    /\ \A i \in 1..Len(handlers) : handlers[i] # h
    /\ handlers' = Append(handlers, h)
    /\ UNCHANGED <<watcher, debounced, emits>>

\* the function onFileChange returned: this.handlers.delete(handler)
Unsubscribe(h) ==
    /\ \E i \in 1..Len(handlers) : handlers[i] = h
    /\ handlers' = SelectSeq(handlers, LAMBDA x : x # h)
    /\ UNCHANGED <<watcher, debounced, emits>>

\* start() on a watcher that is not running
Start ==
    /\ watcher = "null"
    /\ watcher' = "running"
    /\ UNCHANGED <<debounced, handlers, emits>>

\* start() on a running watcher, up to the await of its stop()
Restart ==
    /\ watcher = "running"
    /\ watcher' = "restarting"
    /\ UNCHANGED <<debounced, handlers, emits>>

\* stop() up to its await: the underlying watcher is told to close and
\* reports nothing from here on
StopBegins ==
    /\ watcher = "running"
    /\ watcher' = "closing"
    /\ UNCHANGED <<debounced, handlers, emits>>

\* stop() after its await: every debounced handler is cancelled, the map is
\* cleared; a start() that awaited the stop goes on to watch again
StopCompletes ==
    /\ watcher \in {"closing", "restarting"}
    /\ watcher' = IF watcher = "restarting" THEN "running" ELSE "null"
    /\ debounced' = [p \in DOMAIN debounced |-> NoDebounce]
    /\ UNCHANGED <<handlers, emits>>

(***************************************************************************)
(* Calls of the scan engine                                                *)
(***************************************************************************)
NoScan == [done |-> FALSE, content |-> <<>>, filePath |-> <<>>, alerts |-> <<>>,
           invoked |-> <<>>, aborted |-> FALSE]

\* scannerService.scan(content, filePath)
ScannerServiceScan(content, filePath) ==
    /\ nextId < MaxAlertIds
    /\ LET Returned(out) ==
               /\ lastScan' = [done |-> TRUE, content |-> content, filePath |-> filePath,
                               alerts |-> WithIds(out.alerts, nextId + 1),
                               invoked |-> out.invoked, aborted |-> out.aborted]
               /\ lastIndex' = out.lastIndex
               /\ nextId' = nextId + Len(out.alerts)
       IN Returned(ScannerScan(rules, content, filePath, lastIndex))
    /\ UNCHANGED rules

RegisterRule(rule) ==
    /\ rules' = RegistrySet(rules, rule)
    /\ rules' # rules
    /\ Len(rules') <= MaxRules
    /\ refScan' = NoScan
    /\ lastScan' = NoScan
    /\ UNCHANGED <<lastIndex, nextId, engine>>

UnregisterRule(ruleId) ==
    /\ ruleId \in RuleIds(rules)
    /\ rules' = RegistryDelete(rules, ruleId)
    /\ refScan' = NoScan
    /\ lastScan' = NoScan
    /\ UNCHANGED <<lastIndex, nextId, engine>>

\* event: the event the handler was last given; scanned: whether it ran a
\* scan; emitted: the scan:result messages it sent for that event;
\* responded: the calls whose fix:complete or fix:error was sent;
\* alerts: the alert list of a client; sent: the socket of the last request
\* answered and the messages of that answer, each with its receiver
IdleEngine ==
    [event |-> [type |-> "none", filePath |-> <<>>, content |-> <<>>],
     scanned |-> FALSE, emitted |-> <<>>, responded |-> {},
     alerts |-> <<>>, sent |-> [socket |-> "none", messages |-> <<>>]]

\* a handler that sends every result
ScanResultEmittedAlways(result) == <<result>>

\* if (result.alerts.length > 0) io.emit('scan:result', result)
ScanResultEmitted(result) == IF Len(result.alerts) > 0 THEN <<result>> ELSE <<>>

\* onScanResult of the client: the alerts of the file give way to the new
\* ones
RECURSIVE OnScanResults(_, _)
OnScanResults(prev, results) ==
    IF results = <<>> THEN prev
    ELSE OnScanResults(results[1].alerts
                       \o SelectSeq(prev, LAMBDA a : a.filePath # results[1].filePath),
                       Tail(results))

\* onFixComplete and onFixError of the client
OnFixResponse(prev, response) ==
    IF response.success THEN SelectSeq(prev, LAMBDA a : a.id # response.alertId)
    ELSE prev

\* the handler index.ts registers with the watcher, given an event
EngineOnFileChange(event) ==
    IF event.type = "unlink" \/ Len(event.content) = 0
    THEN /\ engine' = [engine EXCEPT !.event = event, !.scanned = FALSE,
                                     !.emitted = <<>>]
         /\ UNCHANGED <<rules, lastIndex, lastScan, refScan, nextId>>
    ELSE /\ ScannerServiceScan(event.content, event.filePath)
         /\ LET Sent(results) ==
                    engine' = [engine EXCEPT !.event = event, !.scanned = TRUE,
                                             !.emitted = results,
                                             !.alerts = OnScanResults(@, results)]
            IN Sent(ScanResultEmitted([filePath |-> event.filePath,
                                       alerts |-> lastScan'.alerts]))
         /\ UNCHANGED refScan

\* the listener of fix:apply given no payload: reading payload.filePath
\* throws, the listener's promise rejects and nothing is sent
FixApplyUndefined ==
    \E c \in Calls :
        /\ \A d \in Calls : d < c => calls[d].pc # "idle"
        /\ calls[c].pc = "idle"
        /\ calls' = [calls EXCEPT ![c] = [@ EXCEPT !.pc = "rejected"]]
        /\ UNCHANGED <<fs, scanVars, watchVars>>

\* the events the listener of fix:apply sends to the requester once
\* applyFix has resolved
SocketEmits(call) ==
    IF call.pc # "done" THEN <<>>
    ELSE IF call.result.success THEN <<"fix:complete">>
    ELSE <<"fix:error">>

\* the clients connected to the server, in the order of their connection
Sockets == <<"s1", "s2", "s3">>

\* io.emit(event): every connected client gets the message
BroadcastEmitAll(socket, event) ==
    [i \in 1..Len(Sockets) |-> [to |-> Sockets[i], event |-> event]]

\* socket.broadcast.emit(event): every connected client but the sender gets
\* the message
BroadcastEmit(socket, event) ==
    LET others == SelectSeq(Sockets, LAMBDA t : t # socket)
    IN [i \in 1..Len(others) |-> [to |-> others[i], event |-> event]]

\* the rest of the listener of fix:apply of one socket, after the await, and
\* the clients' handler of what it sends
FixRespond ==
    \E c \in Calls, i \in 1..Len(Sockets) :
        /\ calls[c].pc = "done"
        /\ c \notin engine.responded
        /\ LET Reply(socket) ==
                   [socket |-> socket,
                    messages |->
                        [k \in 1..Len(SocketEmits(calls[c])) |->
                            [to |-> socket, event |-> SocketEmits(calls[c])[k]]]
                        \o (IF calls[c].result.success
                            THEN BroadcastEmit(socket, "fix:complete")
                            ELSE <<>>)]
           IN engine' = [engine EXCEPT !.responded = @ \cup {c},
                                       !.alerts = OnFixResponse(@, calls[c].result),
                                       !.sent = Reply(Sockets[i])]
        /\ UNCHANGED <<fixVars, rules, lastIndex, lastScan, refScan, nextId, watchVars>>

\* handleApplyFix of the alert detail view, for an alert of the last result
HandleApplyFix(alert) ==
    [alertId |-> alert.id, filePath |-> alert.filePath,
     originalContent |-> alert.currentContent,
     replacementContent |-> alert.proposedFix]

NoCallActive == \A c \in Calls : calls[c].pc \in {"idle", "done"}

(***************************************************************************)
(* Inputs                                                                  *)
(***************************************************************************)
\* x, then pwd='a' on the second line
TxtTwoLines == <<"x", NL>> \o TxtPwd
\* PWD : BQabBQ;pwd='c'  (two matches of one pattern on one line)
TxtTwoMatches == <<"P","W","D"," ",":"," ","BQ","a","b","BQ",";">>
                 \o <<"p","w","d","=","'","c","'">>

\* password = "pass": a value that is part of the key
TxtPass == KeyPassword \o <<" ","="," ","DQ","p","a","s","s","DQ">>

ScanTexts == {TxtClean, TxtTwoLines, TxtTwoMatches, <<>>}

\* /w/A.PNG
PathPng == <<"/","w","/","A",".","P","N","G">>
\* /w/b.zip
PathZip == <<"/","w","/","b",".","z","i","p">>
\* /w/.env.Example
PathEnvExample == <<"/","w","/",".","e","n","v",".","E","x","a","m","p","l","e">>
\* /w/png.ts
PathPngTs == <<"/","w","/","p","n","g",".","t","s">>

ScanPaths == {PathA, PathPng, PathZip, PathEnvExample, PathPngTs}

CustomRules ==
    {[id |-> "custom-a", impl |-> "custom"], [id |-> "custom-b", impl |-> "broken"],
     [id |-> PasswordRuleId, impl |-> "broken"], PasswordRule}

Payload(filePath, originalContent, replacementContent) ==
    [alertId |-> 1, filePath |-> filePath, originalContent |-> originalContent,
     replacementContent |-> replacementContent]

Payloads ==
    {Payload(PathA, TxtPwd, TxtMasked), Payload(RelA, TxtPwd, TxtClean),
     Payload(PathA, TxtClean, TxtMasked), Payload(<<>>, TxtPwd, TxtMasked),
     Payload(PathA, TxtPwd, <<>>)}

Init ==
    /\ fs = [p \in FsPaths |-> [exists |-> TRUE, content |-> TxtPwd, r |-> TRUE, w |-> TRUE]]
    /\ calls = [c \in Calls |-> IdleCall]
    /\ rules = DefaultRules
    /\ lastIndex = [k \in PatternIndexes |-> 0]
    /\ lastScan = NoScan
    /\ refScan = NoScan
    /\ nextId = 0
    /\ watcher = "null"
    /\ debounced = [p \in WatchPaths |-> NoDebounce]
    /\ handlers = <<>>
    /\ emits = <<>>
    /\ engine = IdleEngine

\* call ids are handed out in order
NextCall(c) == \A d \in Calls : d < c => calls[d].pc # "idle"

FixApply == \E c \in Calls, payload \in Payloads : NextCall(c) /\ ApplyFixBegin(c, payload)
FixAccess == \E c \in Calls : ApplyFixAccess(c)
FixRead == \E c \in Calls : ApplyFixRead(c)
FixWrite == \E c \in Calls : ApplyFixWrite(c)
Edit == \E p \in FsPaths, t \in Texts : ExternalEdit(p, t)
Delete == \E p \in FsPaths : ExternalDelete(p)
Chmod == \E p \in FsPaths, r \in BOOLEAN, w \in BOOLEAN : ExternalChmod(p, r, w)

\* the fix applier among other writers of the file
Next ==
    \/ FixApply
    \/ FixAccess
    \/ FixRead
    \/ FixWrite
    \/ Edit
    \/ Delete
    \/ Chmod

Spec == Init /\ [][Next]_vars

\* the fix applier alone: concurrent requests, no other writer
NextFixOnly ==
    \/ FixApply
    \/ FixAccess
    \/ FixRead
    \/ FixWrite

SpecFixOnly == Init /\ [][NextFixOnly]_vars

\* the change pipeline over a file that editors keep changing
Notify == \E type \in EventTypes, p \in DOMAIN debounced :
              HandleFileEvent(type, p) /\ UNCHANGED <<fixVars, scanVars>>
Fire == \E p \in DOMAIN debounced :
            Len(emits) < MaxEmits /\ TimerFires(p) /\ UNCHANGED <<fixVars, scanVars>>
ReadDone == \E i \in 1..Len(emits) :
                ReadCompletes(i) /\ UNCHANGED <<fixVars, scanVars>>
Subscribe == \E h \in HandlerIds : OnFileChange(h) /\ UNCHANGED <<fixVars, scanVars>>
Unsub == \E h \in HandlerIds : Unsubscribe(h) /\ UNCHANGED <<fixVars, scanVars>>
WatcherStart == Start /\ UNCHANGED <<fixVars, scanVars>>
WatcherRestart == Restart /\ UNCHANGED <<fixVars, scanVars>>
WatcherStop == StopBegins /\ UNCHANGED <<fixVars, scanVars>>
WatcherStopped == StopCompletes /\ UNCHANGED <<fixVars, scanVars>>

NextWatch ==
    \/ WatcherStart
    \/ WatcherRestart
    \/ WatcherStop
    \/ WatcherStopped
    \/ Subscribe
    \/ Unsub
    \/ Notify
    \/ Tick
    \/ Fire
    \/ ReadDone
    \/ Edit
    \/ Delete

SpecWatch == Init /\ [][NextWatch]_vars

\* the pipeline of a running watcher with its listeners, over firings that
\* follow each other
NextFirings ==
    \/ WatcherStart
    \/ Subscribe
    \/ Notify
    \/ Tick
    \/ \E p \in DOMAIN debounced :
           Len(emits) < MaxFirings /\ TimerFires(p) /\ UNCHANGED <<fixVars, scanVars>>
    \/ ReadDone
    \/ Edit

SpecFirings == Init /\ [][NextFirings]_vars

\* /etc/x, a file outside the watched directory /w
PathOutside == <<"/","e","t","c","/","x">>

\* the engine over two watched paths, with a file of the machine that lies
\* outside the watched directory
InitPaths ==
    /\ fs = [p \in FsPaths \cup {PathOutside} |->
                [exists |-> TRUE, content |-> TxtPwd, r |-> TRUE, w |-> TRUE]]
    /\ calls = [c \in Calls |-> IdleCall]
    /\ rules = DefaultRules
    /\ lastIndex = [k \in PatternIndexes |-> 0]
    /\ lastScan = NoScan
    /\ refScan = NoScan
    /\ nextId = 0
    /\ watcher = "null"
    /\ debounced = [p \in WatchPaths \cup {PathPngTs} |-> NoDebounce]
    /\ handlers = <<>>
    /\ emits = <<>>
    /\ engine = IdleEngine

\* the pipeline of a running watcher; the event loop runs the timers: time
\* passes and a timer that is due fires
NextPaths ==
    \/ WatcherStart
    \/ Notify
    \/ Tick
    \/ Fire
    \/ ReadDone

SpecPaths == InitPaths /\ [][NextPaths]_vars /\ WF_vars(Tick) /\ WF_vars(Fire)

\* the fix applier given payloads of any client, the path of the file
\* outside the watched directory among them
NextOutside ==
    \/ FixApply
    \/ \E c \in Calls, replacementContent \in {TxtMasked, TxtClean} :
           NextCall(c) /\ ApplyFixBegin(c, Payload(PathOutside, TxtPwd, replacementContent))
    \/ FixAccess
    \/ FixRead
    \/ FixWrite

SpecOutside == InitPaths /\ [][NextOutside]_vars

\* the scan engine: scans of any text under any path, rules coming and going
Scan == \E content \in ScanTexts, filePath \in ScanPaths :
            ScannerServiceScan(content, filePath) /\ UNCHANGED <<refScan, engine, fixVars, watchVars>>
Register == \E rule \in CustomRules : RegisterRule(rule) /\ UNCHANGED <<fixVars, watchVars>>
Unregister == \E ruleId \in RuleIds(rules) : UnregisterRule(ruleId) /\ UNCHANGED <<fixVars, watchVars>>

NextScan ==
    \/ Scan
    \/ Register
    \/ Unregister

SpecScan == Init /\ [][NextScan]_vars

\* scans repeated on one scanner: any scan may be kept for comparison with
\* the later scans of the same text and path
RescanPaths == {PathA, PathPng}

Rescan == \E content \in ScanTexts, filePath \in RescanPaths :
              /\ ScannerServiceScan(content, filePath)
              /\ refScan' \in {refScan, lastScan'}
              /\ UNCHANGED <<engine, fixVars, watchVars>>

NextRescan ==
    \/ Rescan
    \/ Register
    \/ Unregister

SpecRescan == Init /\ [][NextRescan]_vars

\* scan, then fix: the engine scans a changed file, the client asks for the
\* fix of one of the alerts, and nobody else touches the file during a fix
\* the event the watcher hands over for the file p carries the content it
\* read, none for a deletion
ScanFile == \E p \in FsPaths, type \in EventTypes :
                /\ type = "unlink" \/ (fs[p].exists /\ fs[p].r)
                /\ EngineOnFileChange([type |-> type, filePath |-> p,
                                       content |-> IF type = "unlink" THEN <<>>
                                                   ELSE fs[p].content])
                /\ UNCHANGED <<fixVars, watchVars>>
FixAlert == \E c \in Calls, j \in 1..Len(lastScan.alerts) :
                /\ NextCall(c)
                /\ NoCallActive
                /\ ApplyFixBegin(c, HandleApplyFix(lastScan.alerts[j]))
QuietEdit == NoCallActive /\ \E p \in FsPaths, t \in Texts \cup {TxtPass} : ExternalEdit(p, t)
QuietDelete == NoCallActive /\ Delete
QuietChmod == NoCallActive /\ Chmod

NextScanFix ==
    \/ ScanFile
    \/ FixAlert
    \/ FixAccess
    \/ FixRead
    \/ FixWrite
    \/ QuietEdit
    \/ QuietDelete
    \/ QuietChmod

SpecScanFix == Init /\ [][NextScanFix]_vars

\* the engine and one client: file events, the client asking for the fix of
\* an alert of its list or sending no payload, responses, edits of the file
ClientFix == \E c \in Calls, j \in 1..Len(engine.alerts) :
                 NextCall(c) /\ ApplyFixBegin(c, HandleApplyFix(engine.alerts[j]))

NextSession ==
    \/ ScanFile
    \/ ClientFix
    \/ FixApplyUndefined
    \/ FixAccess
    \/ FixRead
    \/ FixWrite
    \/ FixRespond
    \/ \E p \in FsPaths, t \in Texts \cup {<<>>} : ExternalEdit(p, t)
    \/ Delete

SpecSession == Init /\ [][NextSession]_vars

\* scans by the full scanner: its eleven default rules, some of which may be
\* taken out
\* // password = "old123"
TxtCommented ==
    <<"/","/"," ","p","a","s","s","w","o","r","d"," ","="," ","DQ","o","l","d","1","2","3","DQ">>
\* const password = "mysecretpassword";
LineConst ==
    <<"c","o","n","s","t"," ","p","a","s","s","w","o","r","d",
      " ","="," ","DQ","m","y","s","e","c","r","e","t","p","a","s","s","w","o","r","d","DQ",";">>
\* const password = "********";
LineConstMasked ==
    <<"c","o","n","s","t"," ","p","a","s","s","w","o","r","d"," ","="," ","DQ","*","*","*","*","*","*","*","*","DQ",";">>
\* the line between two lines no rule reports
TxtConstAmid == <<"x", NL>> \o LineConst \o <<NL, "y">>

InitFull ==
    /\ fs = [p \in FsPaths |-> [exists |-> TRUE, content |-> TxtPwd, r |-> TRUE, w |-> TRUE]]
    /\ calls = [c \in Calls |-> IdleCall]
    /\ rules = FullRules
    /\ lastIndex = [k \in PatternIndexes |-> 0]
    /\ lastScan = NoScan
    /\ refScan = NoScan
    /\ nextId = 0
    /\ watcher = "null"
    /\ debounced = [p \in WatchPaths |-> NoDebounce]
    /\ handlers = <<>>
    /\ emits = <<>>
    /\ engine = IdleEngine

\* the BEGIN marker of a key, then x; the marker, M, the END marker, then y
TxtKeys ==
    LET Begin == PrivateKeyPatterns[6].text
        End == <<"-","-","-","-","-","E","N","D"," ","P","R","I","V","A","T","E"," ","K","E","Y","-","-","-","-","-">>
    IN {Begin \o <<NL, "x">>, Begin \o <<NL, "M", NL>> \o End \o <<NL, "y">>}

FullScan == \E content \in {TxtCommented, LineConst, TxtConstAmid, TxtClean, TxtPass}
                                \cup TxtKeys,
               filePath \in {PathA, PathPng} :
                ScannerServiceScan(content, filePath) /\ UNCHANGED <<refScan, engine, fixVars, watchVars>>
FullUnregister == \E ruleId \in {PasswordRuleId, CommentedRuleId, "api-key-detection"} :
                      UnregisterRule(ruleId) /\ UNCHANGED <<fixVars, watchVars>>

NextFullScan ==
    \/ FullScan
    \/ FullUnregister

SpecFullScan == InitFull /\ [][NextFullScan]_vars

(***************************************************************************)
(* Properties of the fix applier                                           *)
(***************************************************************************)
CallFile(c) == FileAt(calls[c].normalizedPath)

ReadSucceeds(c) == CallFile(c).exists /\ CallFile(c).r

\* C1: when the re-read of applyFix finds a content other than the request's
\* originalContent, the call ends right there with success = false and the
\* stale-conflict error, and its step leaves the file system as it was.
C1_StaleRejectedWithoutWrite ==
    [][\A c \in Calls :
          (/\ calls[c].pc = "read"
           /\ calls'[c].pc # "read"
           /\ ReadSucceeds(c)
           /\ CallFile(c).content # calls[c].payload.originalContent)
          => (/\ calls'[c].pc = "done"
              /\ calls'[c].result.success = FALSE
              /\ calls'[c].result.error = ErrStale
              /\ fs' = fs)]_vars

C1_Witness ==
    \E c \in Calls :
        /\ calls[c].pc = "done"
        /\ calls[c].result.error = ErrStale
        /\ calls[c].currentContent # calls[c].payload.originalContent

\* C2: a request built from an alert of a scan, run with no other writer
\* against a readable and writable file that holds the alert's
\* currentContent, ends with success = true and leaves the file holding
\* exactly the alert's proposedFix.
C2_FindingFixSucceeds ==
    [][\A c \in Calls :
          LET p == calls'[c].payload
              f == FileAt(Resolve(p.filePath))
          IN (/\ calls[c].pc # "done"
              /\ calls'[c].pc = "done"
              /\ f.exists /\ f.r /\ f.w
              /\ f.content = p.originalContent)
             => (/\ calls'[c].result.success
                 /\ fs'[Resolve(p.filePath)].content = p.replacementContent)]_vars

C2_Witness ==
    \E c \in Calls :
        /\ calls[c].pc = "done"
        /\ calls[c].result.success
        /\ calls[c].payload.replacementContent # calls[c].payload.originalContent
        /\ CallFile(c).content = calls[c].payload.replacementContent

\* C3 as claimed: at the moment a call writes replacementContent, the file
\* holds the request's originalContent.
C3_WritesOverOriginalOnly ==
    [][\A c \in Calls :
          (calls[c].pc = "write" /\ calls'[c].result.success)
          => (CallFile(c).exists /\ CallFile(c).content = calls[c].payload.originalContent)]_vars

\* C3 as amended: at the moment a call writes replacementContent, the content
\* it read from the file equals the request's originalContent (the file may
\* have been written since that read).
C3_WritesAfterMatchingRead ==
    [][\A c \in Calls :
          (calls[c].pc = "write" /\ calls'[c].result.success)
          => calls[c].currentContent = calls[c].payload.originalContent]_vars

C3_Witness ==
    \E c \in Calls :
        /\ calls[c].pc = "done"
        /\ calls[c].result.success
        /\ calls[c].currentContent = calls[c].payload.originalContent
        /\ \E d \in Calls : calls[d].pc = "done" /\ calls[d].result.error = ErrStale

\* C4: of two concurrent calls on the same file that carry the same
\* originalContent and replacements that differ from it, at most one
\* succeeds.
C4_AtMostOneSucceeds ==
    \A c, d \in Calls :
        (/\ c # d
         /\ calls[c].pc = "done" /\ calls[d].pc = "done"
         /\ calls[c].normalizedPath = calls[d].normalizedPath
         /\ calls[c].payload.originalContent = calls[d].payload.originalContent
         /\ calls[c].payload.replacementContent # calls[c].payload.originalContent
         /\ calls[d].payload.replacementContent # calls[d].payload.originalContent)
        => ~(calls[c].result.success /\ calls[d].result.success)

\* the listeners the i-th emit had called before the step
InvokedBefore(i) == IF i <= Len(emits) THEN emits[i].invoked ELSE <<>>

\* the step delivers the event of the i-th emit to the listeners
DeliveredNow(i) ==
    /\ i <= Len(emits')
    /\ emits'[i].stage = "delivered"
    /\ i <= Len(emits) => emits[i].stage = "reading"

\* the step completes the read of the i-th emit
ReadEndsNow(i) ==
    /\ i <= Len(emits)
    /\ emits[i].stage = "reading"
    /\ emits'[i].stage # "reading"

\* C5 as stated: every burst of add/change notifications of a path ends in
\* exactly one event, which carries the content the read after the firing
\* returns
C5_BurstEmitsExactlyOneEvent ==
    [][\A i \in 1..MaxEmits :
         ReadEndsNow(i) =>
             /\ emits'[i].stage = "delivered"
             /\ emits'[i].content = FileAt(emits[i].filePath).content]_vars

\* the step is a raw notification of path p
NotifiedNow(p) == debounced'[p].burst > debounced[p].burst

\* the step is the firing of the timer of path p
FiredNow(p) == debounced[p].armed /\ debounced[p].burst > 0 /\ debounced'[p].burst = 0
                   /\ watcher' = watcher

\* C5, amended: the notifications of a burst only restart the timer of the
\* path and emit nothing; the timer fires once for the whole burst, one full
\* interval after its last notification; the one firing emits exactly one
\* event with the content read after the firing if the file can be read, and
\* no event if it cannot.
C5_BurstFiresOnceAndEmitsWhatIsRead ==
    [][/\ \A p \in WatchPaths :
            /\ NotifiedNow(p) =>
                   /\ emits' = emits
                   /\ debounced'[p].armed
                   /\ debounced'[p].remaining = DebounceTicks
            /\ FiredNow(p) =>
                   /\ debounced[p].remaining = 0
                   /\ Len(emits') = Len(emits) + 1
                   /\ emits'[Len(emits')].burst = debounced[p].burst
                   /\ emits'[Len(emits')].filePath = p
                   /\ ~debounced'[p].armed
            /\ Len(emits') > Len(emits) => \E q \in WatchPaths : FiredNow(q)
       /\ \A i \in 1..MaxEmits :
            ReadEndsNow(i) =>
                LET f == FileAt(emits[i].filePath)
                IN IF emits'[i].stage = "delivered"
                   THEN f.exists /\ f.r /\ emits'[i].content = f.content
                   ELSE /\ emits'[i].invoked = <<>>
                        /\ ~(f.exists /\ f.r) => emits'[i].stage = "dropped"]_vars

\* a burst of two notifications has ended in one event with a read content
C5_Witness ==
    \E i \in 1..Len(emits) :
        /\ emits[i].type # "unlink"
        /\ emits[i].burst >= 2
        /\ emits[i].stage = "delivered"
        /\ emits[i].content # <<>>

\* C6: once stop() has completed, no registered listener is called again,
\* whatever read was in flight and whatever timer expired during the close
C6_NoListenerCalledAfterStop ==
    [][watcher = "null" =>
           \A i \in 1..MaxEmits :
               i <= Len(emits') => emits'[i].invoked = InvokedBefore(i)]_vars

\* C7: every event that is delivered calls every listener registered at that
\* moment exactly once, also when listeners before it throw, and the
\* exception never leaves the delivery
C7_EveryListenerCalledOnce ==
    [][\A i \in 1..MaxEmits :
         DeliveredNow(i) =>
             /\ ~emits'[i].escaped
             /\ \A h \in HandlerIds :
                  Cardinality({k \in 1..Len(emits'[i].invoked) :
                                   emits'[i].invoked[k] = h})
                      = Cardinality({k \in 1..Len(handlers) : handlers[k] = h})
             /\ \A h \in HandlerIds :
                  Cardinality({k \in 1..Len(handlers) : handlers[k] = h}) <= 1]_vars

\* an event went to the throwing listener first and to the other one after it
C7_Witness ==
    \E i \in 1..Len(emits) :
        /\ emits[i].stage = "delivered"
        /\ emits[i].invoked = <<"h1", "h2">>
        /\ HandlerThrows("h1")

(***************************************************************************)
(* Properties of the scan engine                                           *)
(***************************************************************************)
\* the alerts of the rules of the registry from the i-th on that do not throw
RECURSIVE AlertsOfSoundRules(_, _, _, _)
AlertsOfSoundRules(registry, i, content, filePath) ==
    IF i > Len(registry) THEN <<>>
    ELSE LET out == RuleScan(registry[i], content, filePath, lastIndex)
         IN (IF out.threw THEN <<>> ELSE out.alerts)
            \o AlertsOfSoundRules(registry, i + 1, content, filePath)

\* the path ends, whatever the case of its letters, in the given suffix
EndsWithAnyCase(filePath, suffix) ==
    /\ Len(filePath) >= Len(suffix)
    /\ \A k \in 1..Len(suffix) :
           Lower(filePath[Len(filePath) - Len(suffix) + k]) = suffix[k]

SkipListed(filePath) ==
    \E suffix \in SkipExtensions \cup ExampleEnvSuffixes : EndsWithAnyCase(filePath, suffix)

\* C8: the scan of a path that is not skipped returns a result even when
\* rules throw, every registered rule is run, and the alerts are exactly
\* those of the rules that did not throw, in registration order.
C8_ThrowingRulesIsolated ==
    (lastScan.done /\ ~SkipListed(lastScan.filePath))
    => (/\ ~lastScan.aborted
        /\ lastScan.invoked = [i \in 1..Len(rules) |-> rules[i].id]
        /\ Unidentified(lastScan.alerts)
             = AlertsOfSoundRules(rules, 1, lastScan.content, lastScan.filePath))

C8_Witness ==
    /\ lastScan.done
    /\ ~SkipListed(lastScan.filePath)
    /\ \E i, j \in 1..Len(rules) :
           /\ i < j
           /\ rules[i].impl = "broken"
           /\ \E a \in 1..Len(lastScan.alerts) : lastScan.alerts[a].rule = rules[j].id

\* C9: the scan of a path that ends, in any case, in an extension of the
\* skip list or in .env.example, .env.sample or .env.template returns no
\* alert, whatever the content, and runs no rule.
C9_SkippedPathsRunNoRule ==
    (lastScan.done /\ SkipListed(lastScan.filePath))
    => (/\ lastScan.alerts = <<>>
        /\ lastScan.invoked = <<>>
        /\ ~lastScan.aborted)

C9_Witness ==
    /\ lastScan.done
    /\ lastScan.filePath \in {PathPng, PathEnvExample}
    /\ lastScan.content = TxtTwoLines
    /\ Len(rules) > 0
    /\ lastScan.alerts = <<>>

\* C10: two scans of the same text and path under the same registry, with
\* any scans in between, return the same alerts in the same order, their
\* identifiers apart.
C10_ScanDeterministic ==
    (/\ refScan.done /\ lastScan.done
     /\ refScan.content = lastScan.content
     /\ refScan.filePath = lastScan.filePath)
    => (/\ Unidentified(refScan.alerts) = Unidentified(lastScan.alerts)
        /\ refScan.aborted = lastScan.aborted)

C10_Witness ==
    /\ refScan.done /\ lastScan.done
    /\ refScan.content = lastScan.content
    /\ refScan.filePath = lastScan.filePath
    /\ Len(lastScan.alerts) = 2
    /\ refScan.alerts[1].id # lastScan.alerts[1].id

(***************************************************************************)
(* Properties of the full default rule set                                 *)
(***************************************************************************)
FullScanOf(content) ==
    /\ lastScan.done
    /\ rules = FullRules
    /\ lastScan.content = content
    /\ ~ShouldSkipFile(lastScan.filePath)

\* C11: the scan, by the default rule set, of a file whose only line is
\* // password = "old123" yields findings of commented-secrets-detection
\* only: password-detection reports nothing on the commented line
C11_CommentedLineReportedByCommentRuleOnly ==
    FullScanOf(TxtCommented) =>
        /\ Len(lastScan.alerts) >= 1
        /\ \A j \in 1..Len(lastScan.alerts) : lastScan.alerts[j].rule = CommentedRuleId

\* C12: the scan, by the default rule set, of a text whose only matching
\* line is const password = "mysecretpassword"; yields exactly one finding:
\* of password-detection, critical, matching password = "mysecretpassword",
\* and its proposed fix has password = "********" on that line and every
\* other line as it was
C12_ConstPasswordYieldsOneMaskingFinding ==
    \A content \in {LineConst, TxtConstAmid} :
        FullScanOf(content) =>
            /\ Len(lastScan.alerts) = 1
            /\ LET a == lastScan.alerts[1]
                   before == Split(content)
                   after == Split(a.proposedFix)
               IN /\ a.rule = PasswordRuleId
                  /\ a.severity = "critical"
                  /\ a.matchedText = SubSeq(LineConst, 7, Len(LineConst) - 1)
                  /\ before[a.line] = LineConst
                  /\ Len(after) = Len(before)
                  /\ IndexOf(after[a.line], SubSeq(LineConstMasked, 7, Len(LineConstMasked) - 1)) # -1
                  /\ after[a.line] = LineConstMasked
                  /\ \A n \in 1..Len(before) : n # a.line => after[n] = before[n]

C12_Witness ==
    /\ FullScanOf(TxtConstAmid)
    /\ Len(lastScan.alerts) = 1
    /\ lastScan.alerts[1].line = 2

(***************************************************************************)
(* Properties of the engine                                                *)
(***************************************************************************)
\* C13: for an add or change event, the engine emits scan:result exactly
\* when the scan of the event's content yields at least one finding, and
\* the message carries the findings of that scan; for an unlink event it
\* runs no scan and emits nothing
C13_ScanResultExactlyWhenFindings ==
    LET e == engine.event
        found == ScannerScan(rules, e.content, e.filePath, lastIndex).alerts
    IN /\ e.type \in {"add", "change"} =>
            /\ Len(engine.emitted) = (IF Len(found) > 0 THEN 1 ELSE 0)
            /\ \A k \in 1..Len(engine.emitted) :
                   /\ engine.emitted[k].filePath = e.filePath
                   /\ Unidentified(engine.emitted[k].alerts) = Unidentified(found)
       /\ e.type = "unlink" => ~engine.scanned /\ engine.emitted = <<>>

C13_Witness ==
    /\ engine.event.type = "change"
    /\ engine.scanned
    /\ Len(engine.emitted) = 1
    /\ Len(engine.emitted[1].alerts) = 1

\* C14: every fix:apply request ends with exactly one response to the
\* requester, fix:complete for a success and fix:error for a failure, and
\* applyFix resolves to a response with the alertId of the request: no
\* request ends with a rejected promise and nothing sent
C14_EveryRequestAnsweredOnce ==
    \A c \in Calls :
        /\ calls[c].pc \in {"done", "rejected"} =>
              /\ calls[c].pc = "done"
              /\ Len(SocketEmits(calls[c])) = 1
              /\ SocketEmits(calls[c])[1] =
                     (IF calls[c].result.success THEN "fix:complete" ELSE "fix:error")
              /\ calls[c].result.alertId = calls[c].payload.alertId
        /\ c \in engine.responded => calls[c].pc = "done"

\* C15: once the engine has scanned the content of the file P again, the
\* alert list of the client holds no alert of P made from another content,
\* however many findings the new scan has
C15_NoAlertOfEarlierScanAfterRescan ==
    engine.scanned =>
        \A j \in 1..Len(engine.alerts) :
            engine.alerts[j].filePath = engine.event.filePath
                => engine.alerts[j].currentContent = engine.event.content

C17_DeliveredInFiringOrder ==
    [][\A i \in 1..Len(emits) :
         (DeliveredNow(i) /\ emits'[i].invoked # <<>>) =>
             \A j \in (i + 1)..Len(emits) :
                 emits[j].filePath = emits[i].filePath =>
                     ~(emits[j].stage = "delivered" /\ emits[j].invoked # <<>>)]_vars

\* C18: a failed read delivers the event to no listener and the error, of
\* whatever kind, does not leave the pipeline
C18_ReadFailureNeverEscapes ==
    \A i \in 1..Len(emits) :
        emits[i].stage \in {"dropped", "rejected"} =>
            /\ emits[i].invoked = <<>>
            /\ ~emits[i].escaped
            /\ emits[i].stage = "dropped"

(***************************************************************************)
(* Properties of the fix applier, continued                                *)
(***************************************************************************)
\* C19: validateFix reports valid exactly when applyFix would get past its
\* path resolution, its accessibility check (readable and writable) and its
\* comparison of the content with originalContent
C19_ValidateFixAgreesWithApplyFix ==
    \A payload \in Payloads :
        LET np == Resolve(payload.filePath)
        IN Len(payload.filePath) > 0 =>
               (ValidateFix(payload).valid
                    <=> (/\ AccessRW(np)
                         /\ ~IsStale(FileAt(np).content, payload.originalContent)))

\* C20: a failure carries the stale-baseline reason exactly when the read
\* found a content other than originalContent, so no other failure shares
\* the reason; a request that fails validation ends in the step that
\* receives it, with a validation reason, before any access, read or write
C20_StaleReasonDistinctValidationFirst ==
    [][\A c \in Calls :
         LET p == calls'[c].payload
             r == calls'[c].result
             f == FileAt(Resolve(p.filePath))
             invalid == Len(p.filePath) = 0 \/ Len(p.replacementContent) = 0
         IN /\ (calls[c].pc # "done" /\ calls'[c].pc = "done" /\ ~r.success) =>
                 /\ r.error = ErrStale
                        <=> (/\ calls[c].pc = "read"
                             /\ f.exists /\ f.r
                             /\ f.content # p.originalContent)
                 /\ r.error \in {ErrInvalidPath, ErrInvalidReplacement} <=> invalid
            /\ (calls[c].pc = "idle" /\ calls'[c].pc # "idle" /\ invalid) =>
                 /\ calls'[c].pc = "done"
                 /\ ~r.success
                 /\ fs' = fs]_vars

\* one request was rejected for a stale baseline and another one at the
\* validation
C20_Witness ==
    \E c \in Calls, d \in Calls :
        /\ calls[c].pc = "done" /\ calls[c].result.error = ErrStale
        /\ calls[d].pc = "done" /\ calls[d].result.error = ErrInvalidPath

(***************************************************************************)
(* Properties of the scan engine, continued                                *)
(***************************************************************************)
\* C21: the alerts of a scan come in the order of registration of their
\* rules and, within one rule, in the order the rule produced them; a rule
\* registered under an id that is already there takes the place of the
\* earlier one, so the ids of the registry are distinct and each runs once
C21_AlertsInRegistrationOrder ==
    [][/\ (rules' # rules /\ RuleIds(rules') = RuleIds(rules)) =>
              [i \in 1..Len(rules') |-> rules'[i].id] = [i \in 1..Len(rules) |-> rules[i].id]
       /\ \A i, j \in 1..Len(rules') : rules'[i].id = rules'[j].id => i = j
       /\ lastScan'.done =>
            LET alerts == lastScan'.alerts
                Pos(id) == CHOOSE i \in 1..Len(rules') : rules'[i].id = id
            IN /\ \A j, k \in 1..Len(alerts) :
                     j < k => Pos(alerts[j].rule) <= Pos(alerts[k].rule)
               /\ \A i \in 1..Len(rules') :
                     LET out == RuleScan(rules'[i], lastScan'.content,
                                         lastScan'.filePath, lastIndex')
                         mine == SelectSeq(alerts, LAMBDA a : a.rule = rules'[i].id)
                     IN IF out.threw \/ ShouldSkipFile(lastScan'.filePath)
                        THEN mine = <<>>
                        ELSE Unidentified(mine) = out.alerts
               /\ \A i, j \in 1..Len(lastScan'.invoked) :
                     lastScan'.invoked[i] = lastScan'.invoked[j] => i = j]_vars

\* a scan returned two alerts of the first rule and then one of a later rule
C21_Witness ==
    /\ lastScan.done
    /\ Len(lastScan.alerts) >= 3
    /\ lastScan.alerts[1].rule = rules[1].id
    /\ lastScan.alerts[2].rule = rules[1].id
    /\ lastScan.alerts[3].rule # rules[1].id

\* C22: the proposed fix of every finding has as many lines as the scanned
\* content and differs from it on the line of the finding only; for a
\* private-key finding it may differ from the line of the BEGIN marker
\* through the first following line that holds an END marker
C22_FixChangesOwnLineOrKeyBlockOnly ==
    lastScan.done =>
        \A j \in 1..Len(lastScan.alerts) :
            LET a == lastScan.alerts[j]
                before == Split(a.currentContent)
                after == Split(a.proposedFix)
                ends == {n \in (a.line + 1)..Len(before) :
                             IndexOf(before[n], <<"-","-","-","-","-","E","N","D">>) # -1}
                last == IF a.rule = "private-key-detection" /\ ends # {}
                        THEN Min(ends) ELSE a.line
            IN /\ Len(after) = Len(before)
               /\ \A n \in 1..Len(before) :
                      after[n] # before[n] => (n >= a.line /\ n <= last)

\* C23: the proposed fix of a password-detection finding puts ******** in
\* the place of the quoted value of the matched assignment and keeps the
\* key, the separator, the quotes and the rest of the line, also when the
\* value occurs in the key
C23_FixMasksQuotedValueOnly ==
    lastScan.done =>
        \A j \in 1..Len(lastScan.alerts) :
            LET a == lastScan.alerts[j]
                line == Split(a.currentContent)[a.line]
                m == a.matchedText
                \* the opening quote is the first quote of the match, the
                \* closing quote its last character
                open == Min({q \in 1..Len(m) : IsQuote(m[q])})
                start == a.column - 1
            IN a.rule = PasswordRuleId =>
                   Split(a.proposedFix)[a.line]
                       = Substring(line, 0, start + open) \o MaskedValue
                         \o Substring(line, start + Len(m) - 1, Len(line))

\* C24: once the fix of a password-detection finding has been written to
\* the file and the file is scanned again, the rule reports the masked line
\* again, at the line and column of the finding that was fixed
C24_MaskedLineReportedAgain ==
    [][\A j \in 1..Len(lastScan.alerts) :
         LET a == lastScan.alerts[j]
         IN (/\ a.rule = PasswordRuleId
             /\ a.proposedFix # a.currentContent
             /\ \E c \in Calls : /\ calls[c].pc = "done"
                                 /\ calls[c].result.success
                                 /\ calls[c].payload.alertId = a.id
             /\ lastScan'.done
             /\ lastScan'.filePath = a.filePath
             /\ lastScan'.content = a.proposedFix)
            => \E k \in 1..Len(lastScan'.alerts) :
                   /\ lastScan'.alerts[k].rule = PasswordRuleId
                   /\ lastScan'.alerts[k].line = a.line
                   /\ lastScan'.alerts[k].column = a.column]_vars

(***************************************************************************)
(* Properties of the debounce map                                          *)
(***************************************************************************)
\* C25: the map of debounced handlers holds an entry for a path exactly
\* while the path has a pending timer: the entry goes when the timer fires
\* and when it is cancelled
C25_EntryOnlyWhilePending ==
    \A p \in DOMAIN debounced : debounced[p].present <=> debounced[p].armed

\* C26: a notification for a path creates or restarts the timer of that
\* path only and leaves the entry of every other path as it is, pending kind
\* and remaining interval included; the firing of a path leaves the other
\* paths alone too, and a path whose interval has run out fires although the
\* other path is in the middle of a burst
C26_DebounceIndependentAcrossPaths ==
    [][\A p \in WatchPaths \cup {PathPngTs}, q \in WatchPaths \cup {PathPngTs} :
          p # q =>
            /\ NotifiedNow(p) =>
                 /\ debounced'[q] = debounced[q]
                 /\ debounced'[p].armed /\ debounced'[p].remaining = DebounceTicks
            /\ FiredNow(q) => debounced'[p] = debounced[p]
            /\ (debounced[q].armed /\ debounced[q].remaining = 0
                  /\ Len(emits) < MaxEmits /\ debounced[p].armed)
                 => ENABLED (TimerFires(q) /\ UNCHANGED <<fixVars, scanVars>>)]_vars

\* the event of /w/png.ts has been emitted after one notification while
\* /w/a.ts is in a burst of notifications with its timer still pending
C26_Witness ==
    /\ Len(emits) = 1
    /\ emits[1].filePath = PathPngTs
    /\ emits[1].burst = 1
    /\ debounced[PathA].armed
    /\ debounced[PathA].burst = MaxBurst
    /\ debounced[PathA].remaining > 0

\* C29: an event for a path is emitted only when a full interval has passed
\* since the last notification for the path; every notification restarts the
\* full interval however long the burst has lasted and emits nothing; a firing
\* emits one event and leaves no timer pending; and a pending timer whose
\* path is no longer notified fires, as long as the log of emits has room
C29_FiresOnceAfterQuietInterval ==
    /\ [][\A p \in WatchPaths \cup {PathPngTs} :
            /\ NotifiedNow(p) =>
                 /\ debounced'[p].armed
                 /\ debounced'[p].remaining = DebounceTicks
                 /\ emits' = emits
            /\ FiredNow(p) =>
                 /\ debounced[p].remaining = 0
                 /\ ~debounced'[p].armed
                 /\ Len(emits') = Len(emits) + 1
                 /\ emits'[Len(emits')].filePath = p
            /\ Len(emits') > Len(emits) =>
                 \E q \in WatchPaths \cup {PathPngTs} : FiredNow(q)]_vars
    /\ \A p \in WatchPaths \cup {PathPngTs} :
          (debounced[p].armed /\ Len(emits) < MaxEmits)
             ~> (~debounced[p].armed \/ Len(emits) = MaxEmits)

\* the timer of /w/a.ts has fired once after a burst of notifications that
\* kept it pending for longer than one interval
C29_Witness ==
    /\ Len(emits) = 1
    /\ emits[1].filePath = PathA
    /\ emits[1].burst = MaxBurst
    /\ ~debounced[PathA].armed
    /\ debounced[PathA].present

(***************************************************************************)
(* Properties of the fixes of one scan                                     *)
(***************************************************************************)
\* C27: once a call whose replacementContent differs from its
\* originalContent has succeeded, every call on the same file with the same
\* originalContent that completes afterwards is rejected as stale and leaves
\* the file as it is, so that at most one content-changing fix of one scan
\* is applied
C27_OneFixPerScanApplied ==
    [][\A c, d \in DOMAIN calls :
          (/\ c # d
           /\ calls[c].pc = "done" /\ calls[c].result.success
           /\ calls[c].payload.replacementContent # calls[c].payload.originalContent
           /\ calls[d].normalizedPath = calls[c].normalizedPath
           /\ calls[d].payload.originalContent = calls[c].payload.originalContent
           /\ calls[d].pc # "done" /\ calls'[d].pc = "done")
          => /\ ~calls'[d].result.success
             /\ calls'[d].result.error = ErrStale
             /\ fs' = fs]_vars

(***************************************************************************)
(* Properties of the answers to fix requests                               *)
(***************************************************************************)
\* the step answers the call c
RespondedNow(c) == c \notin engine.responded /\ c \in engine'.responded

\* the messages of the last answer that went to the socket t with the event
SentTo(sent, t, event) ==
    SelectSeq(sent.messages, LAMBDA m : m.to = t /\ m.event = event)

\* C28: the answer to a successful fix gives every connected client
\* fix:complete exactly once, the requester included, and fix:error to
\* nobody; the answer to a failed fix gives the requester fix:error once and
\* gives nothing to any other client
C28_EachClientOneFixComplete ==
    [][\A c \in DOMAIN calls :
          RespondedNow(c) =>
            \A i \in 1..Len(Sockets) :
               LET t == Sockets[i]
                   requester == engine'.sent.socket
               IN IF calls[c].result.success
                  THEN /\ Len(SentTo(engine'.sent, t, "fix:complete")) = 1
                       /\ Len(SentTo(engine'.sent, t, "fix:error")) = 0
                  ELSE /\ Len(SentTo(engine'.sent, t, "fix:complete")) = 0
                       /\ Len(SentTo(engine'.sent, t, "fix:error"))
                            = IF t = requester THEN 1 ELSE 0]_vars

\* a successful fix asked for by the second client has been answered with
\* three messages, and a failed fix is among the answered calls as well
C28_Witness ==
    /\ engine.sent.socket = "s2"
    /\ Len(engine.sent.messages) = 3
    /\ \E c \in engine.responded : calls[c].result.success
    /\ \E c \in engine.responded : ~calls[c].result.success

(***************************************************************************)
(* Properties of the files applyFix writes                                 *)
(***************************************************************************)
\* C30: no step changes a file whose resolved path lies outside the watched
\* directory, whatever payload a client has sent
C30_WritesInsideWatchDirOnly ==
    [][\A p \in DOMAIN fs :
          LET watchDir == Cwd \o <<"/">>
              inside == Len(p) > Len(watchDir) /\ SubSeq(p, 1, Len(watchDir)) = watchDir
          IN ~inside => fs'[p] = fs[p]]_vars

====
